---- MODULE Spec2Model ----
(***************************************************************************)
(* FinanceAi: the bounded product search loop (web_search.py), the budget  *)
(* -> search -> notify pipeline (finance_graph.py), the notification       *)
(* dispatcher (notify.py), the older search script (web-search.py) and the *)
(* dashboard (app.py) with the entry point it calls (cli.py).              *)
(*                                                                         *)
(* Five specifications share the module:                                   *)
(*   Spec         product_web_search_entry / get_openai_response           *)
(*   PipelineSpec run_finance_graph and its three agents                   *)
(*   NotifySpec   send_notification                                        *)
(*   HardCapSpec  product_web_search_entry of web-search.py                *)
(*   DashboardSpec main of app.py, one step per run of the script          *)
(* Each one leaves the variables of the others untouched.                  *)
(***************************************************************************)
EXTENDS Integers, Sequences, FiniteSets, TLC

(***************************************************************************)
(* Bounds of the model.                                                    *)
(***************************************************************************)
MaxDays == 2        \* duration_days ranges over -1 .. MaxDays
MaxAttempts == 2    \* cycles explored in one run of the loop of web_search.py
MaxCalls == 2       \* tool calls carried by one assistant message
MaxRuns == 2        \* searches started in one process

VARIABLES
    \* ---- web_search.py: module globals
    conversation_history,      \* line 18
    price_match_found,         \* line 21
    current_search_price_cap,  \* line 25
    blocked_domains,           \* BLOCKED_DOMAINS, line 86
    \* ---- web_search.py: product_web_search_entry's frame
    pc,                        \* position in product_web_search_entry
    price_cap_dollors,         \* argument
    duration_days,             \* argument
    days_passed,               \* line 267
    ai_response,               \* line 275
    upstream_failed,           \* the first request of the last cycle raised (line 229)
    \* ---- web_search.py: get_openai_response's frame, gone once the loop moves on
    messages_for_api,          \* the message list of the cycle's first request (line 121)
    reply_seen,                \* the part of the reply that decided the outcome
    \* ---- observers of the search loop
    attempts,                  \* get_openai_response calls made by this run
    sleeps,                    \* time.sleep calls made by this run
    match_cycle,               \* the cycle of this run that accepted a match, 0 if none
    runs,                      \* searches started so far
    \* ---- notify.py: the process environment and one send_notification call
    env_openai_api_key,        \* os.getenv("OPENAI_API_KEY")
    resend_ready,              \* RESEND_API_KEY is set and the resend module imported
    notify_args,               \* the arguments of the last send_notification call
    notify_out,                \* what that call did and returned
    \* ---- finance_graph.py: one run of run_finance_graph
    ppc,                       \* the node the compiled graph is at
    pstate,                    \* the FinanceState threaded through the nodes
    max_price,                 \* suggest_budget_agent's max_price (line 92)
    val,                       \* suggest_budget_agent's val before the clamp (line 104)
    reference_reply,           \* the completion received at line 33, if requested
    recommendation_reply,      \* the completion received at line 96, if requested
    search_reply,              \* the completion web_search_agent received (line 173)
    failure,                   \* the exception that left graph.invoke, if any
    plog,                      \* what the run did, in order
    \* ---- web-search.py: module global and product_web_search_entry's frame
    hc_conversation_history,   \* line 16
    hc_pc,                     \* position in product_web_search_entry
    hc_price_cap_dollors,      \* argument
    hc_duration_days,          \* argument
    hc_days_passed,            \* line 159
    hc_ai_response,            \* line 167
    \* ---- observers of that loop
    hc_attempts,               \* get_openai_response calls made
    hc_sleeps,                 \* time.sleep calls made
    hc_match_cycle,            \* the first cycle in which handle_price_match ran, 0 if none
    \* ---- app.py: the dashboard
    session_state,             \* st.session_state (lines 86-99, 169)
    \* ---- observer of the last run of the script
    dash_out                   \* the error it showed and what its entry_point call did

searchVars == <<conversation_history, price_match_found, current_search_price_cap,
                blocked_domains, pc, price_cap_dollors, duration_days, days_passed,
                ai_response, upstream_failed, messages_for_api, reply_seen,
                attempts, sleeps, match_cycle, runs>>

notifyVars == <<env_openai_api_key, resend_ready, notify_args, notify_out>>

pipeVars == <<ppc, pstate, max_price, val, reference_reply, recommendation_reply,
              search_reply, failure, plog>>

hardCapVars == <<hc_conversation_history, hc_pc, hc_price_cap_dollors, hc_duration_days,
                 hc_days_passed, hc_ai_response, hc_attempts, hc_sleeps, hc_match_cycle>>

dashVars == <<session_state, dash_out>>

vars == <<searchVars, notifyVars, pipeVars, hardCapVars, dashVars>>

(***************************************************************************)
(* Values exchanged with the completion service.                           *)
(***************************************************************************)
\* A URL is its host plus one domain name that may occur in its path or query.
Url(host, tail) == [host |-> host, tail |-> tail]
NoUrl == Url("", "")
Urls == {Url("shop.com", ""), Url("bad.com", ""), Url("shop.com", "bad.com")}

\* The price caps searched with, and the prices a listing can carry around them.
PriceCaps == {2}

\* JSON values of the "price" argument: absent/null, a number, or a string.
NoPrice == [t |-> "none", v |-> 0]
StrPrice == [t |-> "str", v |-> 0]
NumPrice(n) == [t |-> "num", v |-> n]
Prices == {NumPrice(c + d) : c \in PriceCaps, d \in {-1, 0, 1}}

\* One tool call of an assistant message: function.name and function.arguments.
ToolCall(name, json, price, url) ==
    [name |-> name, json |-> json, price |-> price, url |-> url]
ToolCalls ==
    {ToolCall("other_tool", "ok", NoPrice, NoUrl),
     ToolCall("other_tool", "ok", NumPrice(0), Url("shop.com", "")),
     ToolCall("record_product_found", "malformed", NoPrice, NoUrl),
     ToolCall("record_product_found", "ok", NoPrice, Url("shop.com", "")),
     ToolCall("record_product_found", "ok", StrPrice, Url("shop.com", ""))}
    \cup {ToolCall("record_product_found", "ok", p, u) : p \in Prices, u \in Urls \cup {NoUrl}}

\* The content of a reply without tool calls: the first URL in it, if any.
TextUrls == Urls \cup {NoUrl}

(***************************************************************************)
(* Values returned by get_openai_response.                                 *)
(***************************************************************************)
Result(shape, price, url, msg) ==
    [shape |-> shape, price |-> price, url |-> url, msg |-> msg]
\* {"product_name", "price", "url", "message"}
FoundResult(price, url, msg) == Result("found", price, url, msg)
\* {"message": ...}
MessageResult(msg) == Result("message", NoPrice, NoUrl, msg)
\* a bare string
StringResult(msg) == Result("string", NoPrice, NoUrl, msg)
\* the function ends without a return statement
NoneResult == Result("none", NoPrice, NoUrl, "")

\* Entries of conversation_history: the assistant message as received (with
\* the number of tool calls it carries), a tool result (with the index of the
\* call it answers), an assistant text.
AssistantEntry(n) == [role |-> "assistant", calls |-> n, id |-> 0]
ToolEntry(i) == [role |-> "tool", calls |-> 0, id |-> i]
\* Entries that only the request's own copy of the transcript gets (lines 124-135).
UserEntry == [role |-> "user", calls |-> 0, id |-> 0]
SystemEntry == [role |-> "system", calls |-> 0, id |-> 0]

\* What decided a reply's outcome: nothing (the request raised), its text with
\* the first URL in it, the tool call whose branch returned, or the end of the
\* tool calls.
Seen(kind, call, url) == [kind |-> kind, call |-> call, url |-> url]
NoCall == ToolCall("", "ok", NoPrice, NoUrl)
NothingSeen == Seen("none", NoCall, NoUrl)

(***************************************************************************)
(* web_search.py: get_openai_response.                                     *)
(*                                                                         *)
(* The completion service is the environment. get_openai_response is the   *)
(* set of outcomes the function can have over every reply the service can  *)
(* give: the tool calls of a reply are drawn when the for loop reaches     *)
(* them, since a call the loop never reaches has no effect.                *)
(***************************************************************************)
\* is_blocked_url: any(domain in url for domain in BLOCKED_DOMAINS), a substring
\* test over the whole URL text.
is_blocked_url(url, blocked) ==
    \E domain \in blocked : domain = url.host \/ domain = url.tail

\* line 166: price is not None and price <= current_search_price_cap and url
WithinCapWithUrl_Strict(price, cap, url) == price.t = "num" /\ price.v < cap /\ url # NoUrl
WithinCapWithUrl(price, cap, url) == price.t = "num" /\ price.v <= cap /\ url # NoUrl

\* What one call of get_openai_response leaves behind: its return value, the
\* transcript, and whether handle_price_match ran.
Out(result, hist, found) ==
    [result |-> result, hist |-> hist, found |-> found, failed |-> FALSE,
     seen |-> NothingSeen]
DecidedBy(seen, outs) == {[o EXCEPT !.seen = seen] : o \in outs}

\* lines 121-135: messages_for_api = list(conversation_history), then the user
\* prompt and the system message.
MessagesForApi_PromptOnly(hist) == <<UserEntry, SystemEntry>>
MessagesForApi(hist) == Append(Append(hist, UserEntry), SystemEntry)

\* line 159: if function_name == "record_product_found"
IsRecordProductFound_Always(name) == TRUE
IsRecordProductFound(name) == name = "record_product_found"

\* lines 229-234: the first request raises; the handler prints and returns a string.
UpstreamFailure_ReturnsNothing(hist) ==
    [result |-> NoneResult, hist |-> hist, found |-> FALSE, failed |-> TRUE,
     seen |-> NothingSeen]
UpstreamFailure(hist) ==
    [result |-> StringResult("api_error"), hist |-> hist, found |-> FALSE, failed |-> TRUE,
     seen |-> NothingSeen]

\* lines 184-199: the tool result is recorded and a follow-up request made,
\* which succeeds or raises (caught at line 204).
RejectedOutcomes(i, hist) ==
    {Out(MessageResult("followup"),
         Append(Append(hist, ToolEntry(i)), AssistantEntry(0)), FALSE),
     Out(MessageResult("tool_error"), Append(hist, ToolEntry(i)), FALSE)}

\* lines 153-209: the for loop over ai_message.tool_calls, from call i of n on.
RECURSIVE ForToolCalls(_, _, _, _, _)
ForToolCalls(i, n, hist, cap, blocked) ==
    IF i > n THEN DecidedBy(Seen("end", NoCall, NoUrl), {Out(NoneResult, hist, FALSE)})
    ELSE UNION {
        IF ~IsRecordProductFound(c.name)
        THEN DecidedBy(Seen("tool", c, NoUrl),
                       {Out(MessageResult("unknown_tool"), hist, FALSE)})
        ELSE IF c.json = "malformed"
        THEN DecidedBy(Seen("tool", c, NoUrl),
                       {Out(MessageResult("malformed"), hist, FALSE)})
        ELSE IF c.price.t = "str"
        THEN DecidedBy(Seen("tool", c, NoUrl),
                       {Out(MessageResult("tool_error"), hist, FALSE)})
        ELSE IF WithinCapWithUrl(c.price, cap, c.url)
        THEN IF is_blocked_url(c.url, blocked)
             THEN ForToolCalls(i + 1, n, hist, cap, blocked)
             ELSE DecidedBy(Seen("tool", c, NoUrl),
                            {Out(FoundResult(c.price, c.url, "handled"), hist, TRUE)})
        ELSE DecidedBy(Seen("tool", c, NoUrl), RejectedOutcomes(i, hist))
        : c \in ToolCalls}

\* lines 210-227: a reply without tool calls.
TextOutcome_SetsMatch(url, hist, blocked) ==
    LET h == Append(Append(hist, AssistantEntry(0)), AssistantEntry(0)) IN
    IF url # NoUrl
    THEN IF is_blocked_url(url, blocked)
         THEN Out(MessageResult("blocked_link"), h, FALSE)
         ELSE Out(FoundResult(NoPrice, url, "text"), h, TRUE)
    ELSE Out(MessageResult("text"), h, FALSE)
TextOutcome(url, hist, blocked) ==
    LET h == Append(Append(hist, AssistantEntry(0)), AssistantEntry(0)) IN
    IF url # NoUrl
    THEN IF is_blocked_url(url, blocked)
         THEN Out(MessageResult("blocked_link"), h, FALSE)
         ELSE Out(FoundResult(NoPrice, url, "text"), h, FALSE)
    ELSE Out(MessageResult("text"), h, FALSE)

get_openai_response(hist, cap, blocked) ==
    {UpstreamFailure(hist)}
    \* a reply whose content is None: re.search raises, caught at line 232
    \cup {Out(StringResult("unexpected"),
              Append(Append(hist, AssistantEntry(0)), AssistantEntry(0)), FALSE)}
    \cup UNION {DecidedBy(Seen("text", NoCall, u), {TextOutcome(u, hist, blocked)})
                : u \in TextUrls}
    \cup UNION {ForToolCalls(1, n, Append(hist, AssistantEntry(n)), cap, blocked)
                : n \in 1..MaxCalls}

(***************************************************************************)
(* web_search.py: product_web_search_entry.                                *)
(***************************************************************************)
DurationDays == -1..MaxDays

\* line 269: while not price_match_found
LoopContinues_HardCap(found, passed, days) == passed < days
LoopContinues(found, passed, days) == ~found

\* line 281: if days_passed < duration_days and not price_match_found
WaitsBeforeNextCycle_IgnoresMatch(found, passed, days) == passed < days
WaitsBeforeNextCycle(found, passed, days) == passed < days /\ ~found

SearchInit ==
    /\ conversation_history = <<>>
    /\ price_match_found = FALSE
    /\ current_search_price_cap = 0
    /\ blocked_domains \in SUBSET {"bad.com"}
    /\ pc = "idle"
    /\ price_cap_dollors = 0
    /\ duration_days = 0
    /\ days_passed = 0
    /\ ai_response = NoneResult
    /\ upstream_failed = FALSE
    /\ messages_for_api = <<>>
    /\ reply_seen = NothingSeen
    /\ attempts = 0
    /\ sleeps = 0
    /\ match_cycle = 0
    /\ runs = 0

\* lines 249-267: a call of product_web_search_entry.
StartSearch ==
    /\ pc \in {"idle", "done"}
    /\ runs < MaxRuns
    /\ \E cap \in PriceCaps, days \in DurationDays :
        /\ price_cap_dollors' = cap
        /\ duration_days' = days
    /\ days_passed' = 0
    /\ pc' = "while"
    /\ attempts' = 0
    /\ sleeps' = 0
    /\ match_cycle' = 0
    /\ runs' = runs + 1
    /\ messages_for_api' = <<>>
    /\ reply_seen' = NothingSeen
    /\ UNCHANGED <<conversation_history, price_match_found, current_search_price_cap,
                   blocked_domains, ai_response, upstream_failed>>
    /\ UNCHANGED <<notifyVars, pipeVars, hardCapVars, dashVars>>

\* line 269: the loop test.
LoopTest ==
    /\ pc = "while"
    /\ IF LoopContinues(price_match_found, days_passed, duration_days)
       THEN attempts < MaxAttempts /\ pc' = "cycle"
       ELSE pc' = "done"
    /\ messages_for_api' = <<>>
    /\ reply_seen' = NothingSeen
    /\ UNCHANGED <<conversation_history, price_match_found, current_search_price_cap,
                   blocked_domains, price_cap_dollors, duration_days, days_passed,
                   ai_response, upstream_failed, attempts, sleeps, match_cycle, runs>>
    /\ UNCHANGED <<notifyVars, pipeVars, hardCapVars, dashVars>>

\* lines 270-285: one cycle, up to the wait.
SearchCycle ==
    /\ pc = "cycle"
    /\ \E out \in get_openai_response(conversation_history, price_cap_dollors,
                                       blocked_domains) :
        LET found == price_match_found \/ out.found
        IN  /\ current_search_price_cap' = price_cap_dollors
            /\ conversation_history' = out.hist
            /\ price_match_found' = found
            /\ ai_response' = out.result
            /\ upstream_failed' = out.failed
            /\ messages_for_api' = MessagesForApi(conversation_history)
            /\ reply_seen' = out.seen
            /\ attempts' = attempts + 1
            /\ match_cycle' = IF out.found THEN attempts + 1 ELSE match_cycle
            /\ days_passed' = days_passed + 1
            /\ pc' = IF WaitsBeforeNextCycle(found, days_passed + 1, duration_days)
                     THEN "sleep" ELSE "while"
    /\ UNCHANGED <<blocked_domains, price_cap_dollors, duration_days, sleeps, runs>>
    /\ UNCHANGED <<notifyVars, pipeVars, hardCapVars, dashVars>>

\* line 283: time.sleep(delay_seconds)
Sleep ==
    /\ pc = "sleep"
    /\ sleeps' = sleeps + 1
    /\ pc' = "while"
    /\ messages_for_api' = <<>>
    /\ reply_seen' = NothingSeen
    /\ UNCHANGED <<conversation_history, price_match_found, current_search_price_cap,
                   blocked_domains, price_cap_dollors, duration_days, days_passed,
                   ai_response, upstream_failed, attempts, match_cycle, runs>>
    /\ UNCHANGED <<notifyVars, pipeVars, hardCapVars, dashVars>>

(***************************************************************************)
(* notify.py: send_notification.                                           *)
(***************************************************************************)
\* An unset environment variable, an absent argument: Python's None.
None == "<None>"

\* Values of OPENAI_API_KEY in the environment and of the api_key argument.
ConfiguredKeys == {None, "", "sk-1"}
ProvidedKeys == {None, "", "sk-1", "sk-2"}

\* user_contact: absent, empty, an address, a phone number.
Contacts == {None, "", "user@example.com", "5551234"}
\* price: a number, or a value that "{price:.2f}" cannot format.
NotifyPrices == {"number", "unformattable"}
\* links: None, one URL string, a list of URL strings.
NotifyLinks == {None, "str", "list"}

NotifyArgs ==
    [api_key : ProvidedKeys, use_email : BOOLEAN, user_contact : Contacts,
     price : NotifyPrices, links : NotifyLinks]

\* lines 41-49. The exception raised, or "ok".
validate_api_key_NoUnsetCheck(provided, configured) ==
    IF provided # configured THEN "PermissionError" ELSE "ok"
validate_api_key(provided, configured) ==
    IF configured = None \/ configured = "" THEN "RuntimeError"
    ELSE IF provided # configured THEN "PermissionError"
    ELSE "ok"

\* line 130: link_list = [links] if isinstance(links, str) else links
link_list(links) == IF links = "str" THEN "list" ELSE links

\* lines 52-69: both message builders iterate the links and format the price.
BuildMessageRaises(price, links) == links = None \/ price = "unformattable"

\* lines 72-94: _send_email. send_ok is whether resend.Emails.send succeeds.
send_email(ready, send_ok, price, links) ==
    IF ~ready THEN "raised"
    ELSE IF BuildMessageRaises(price, links) THEN "raised"
    ELSE IF ~send_ok THEN "raised"
    ELSE "sent"

\* lines 97-111: _print_stdout prints the header, then the price, then the links.
print_stdout(price, links) ==
    IF price = "unformattable" \/ links = None THEN "partial" ELSE "full"

\* line 132: use_email and user_contact and "@" in user_contact
ContainsAt(contact) == contact = "user@example.com"
WantsEmail(use_email, contact) ==
    use_email /\ contact # None /\ contact # "" /\ ContainsAt(contact)

\* lines 143-145: except Exception: return False
CatchAll_Propagates(raised) == IF raised THEN "raised" ELSE "True"
CatchAll(raised) == IF raised THEN "False" ELSE "True"

NotifyOut(ret, auth, email, fallback) ==
    [ret |-> ret, auth |-> auth, email |-> email, fallback |-> fallback]
NotCalled == NotifyOut("pending", "pending", "not_tried", "none")

\* lines 114-145.
send_notification(args, configured, ready, send_ok) ==
    LET auth == validate_api_key(args.api_key, configured)
        links == link_list(args.links)
    IN  IF auth # "ok"
        THEN NotifyOut(CatchAll(TRUE), auth, "not_tried", "none")
        ELSE IF WantsEmail(args.use_email, args.user_contact)
        THEN LET email == send_email(ready, send_ok, args.price, links) IN
             IF email = "sent"
             THEN NotifyOut(CatchAll(FALSE), auth, email, "none")
             ELSE LET printed == print_stdout(args.price, links) IN
                  NotifyOut(CatchAll(printed # "full"), auth, email, printed)
        ELSE LET printed == print_stdout(args.price, links) IN
             NotifyOut(CatchAll(printed # "full"), auth, "not_tried", printed)

NotifyQuiet ==
    /\ env_openai_api_key = "sk-1"
    /\ resend_ready = FALSE
    /\ notify_args = [api_key |-> None, use_email |-> FALSE, user_contact |-> None,
                      price |-> "number", links |-> "list"]
    /\ notify_out = NotCalled

NotifyStart ==
    /\ env_openai_api_key \in ConfiguredKeys
    /\ resend_ready \in BOOLEAN
    /\ notify_args = [api_key |-> None, use_email |-> FALSE, user_contact |-> None,
                      price |-> "number", links |-> "list"]
    /\ notify_out = NotCalled

\* A caller invokes send_notification.
SendNotification ==
    /\ \E args \in NotifyArgs, send_ok \in BOOLEAN :
        /\ notify_args' = args
        /\ notify_out' = send_notification(args, env_openai_api_key, resend_ready, send_ok)
    /\ UNCHANGED <<env_openai_api_key, resend_ready>>
    /\ UNCHANGED <<searchVars, pipeVars, hardCapVars, dashVars>>

(***************************************************************************)
(* finance_graph.py: the budget stage.                                     *)
(***************************************************************************)
MaxAmount == 2      \* amounts of money range over 0 .. MaxAmount

Amounts == 0..MaxAmount

\* The text of a completion: a number written plainly ("800"), with a dollar
\* sign ("$800"), with thousands separators ("1,299"), with both ("$1,299"),
\* or words that are no number.
Text(form, v) == [form |-> form, v |-> v]
Texts == {Text(f, v) : f \in {"plain", "dollar", "comma", "dollar_comma"}, v \in Amounts}
         \cup {Text("words", 0)}

\* A completion request either raises or returns a text.
Completion(ok, text) == [ok |-> ok, text |-> text]
Completions == {Completion(FALSE, Text("words", 0))} \cup {Completion(TRUE, t) : t \in Texts}
\* No request was made.
NoCompletion == [ok |-> FALSE, text |-> Text("", 0)]

\* lines 40-45: float(text.replace(",", "")), None on ValueError.
lookup_max_price_via_llm_ZeroOnError(text) ==
    IF text.form \in {"plain", "comma"} THEN NumPrice(text.v) ELSE NumPrice(0)
lookup_max_price_via_llm(text) ==
    IF text.form \in {"plain", "comma"} THEN NumPrice(text.v) ELSE NoPrice

\* lines 102-106: float(raw.replace("$", "").replace(",", "")); NoPrice stands
\* for the ValueError.
ParseRecommendation_ZeroOnError(text) ==
    IF text.form \in {"plain", "dollar", "comma", "dollar_comma"}
    THEN NumPrice(text.v) ELSE NumPrice(0)
ParseRecommendation(text) ==
    IF text.form \in {"plain", "dollar", "comma", "dollar_comma"}
    THEN NumPrice(text.v) ELSE NoPrice

\* lines 108-109: if max_price is not None and val > max_price: val = max_price
Clamp_Off(v, reference) == v
Clamp(v, reference) ==
    IF reference.t = "num" /\ v > reference.v THEN reference.v ELSE v

\* {**inputs, key: value}
StateUnion_ResetsPath(inputs, key, value) ==
    [k \in DOMAIN inputs \cup {key} |->
        IF k = key THEN value ELSE IF k = "financials_path" THEN None ELSE inputs[k]]
StateUnion(inputs, key, value) ==
    [k \in DOMAIN inputs \cup {key} |-> IF k = key THEN value ELSE inputs[k]]

\* What a node does: the events it causes, and either the state it returns or
\* the exception it raises.
Returned(state, events) ==
    [exc |-> "none", cause |-> "none", state |-> state, events |-> events]
Raised(exc, cause, state, events) ==
    [exc |-> exc, cause |-> cause, state |-> state, events |-> events]

\* The exception class each failure leaves the stage as: RuntimeError at lines
\* 79, 87, 106 and 124, the client library's own exception for a failed request.
RaisedAs(cause) ==
    IF cause \in {"credential", "financials", "unparseable"} THEN "RuntimeError"
    ELSE "APIError"

\* line 78: if not os.getenv("OPENAI_API_KEY")
CredentialMissing_OnlyUnset(key) == key = None
CredentialMissing(key) == key = None \/ key = ""

\* line 83: if financials_path:
LoadsFinancials_Always(path) == TRUE
LoadsFinancials(path) == path # None /\ path # ""

\* lines 72-114. load_ok: whether load_financials succeeds; reference and
\* recommendation: the two completions.
suggest_budget_agent(inputs, key, load_ok, reference, recommendation) ==
    LET path == inputs["financials_path"]
        loads == LoadsFinancials(path)
        e1 == IF loads THEN <<"load">> ELSE <<>>
        e2 == Append(e1, "request:reference")
        e3 == Append(e2, "request:recommendation")
        known == lookup_max_price_via_llm(reference.text)
        parsed == ParseRecommendation(recommendation.text)
    IN  IF CredentialMissing(key)
        THEN Raised(RaisedAs("credential"), "credential", inputs, <<>>)
        ELSE IF loads /\ ~load_ok
        THEN Raised(RaisedAs("financials"), "financials", inputs, e1)
        ELSE IF ~reference.ok
        THEN Raised(RaisedAs("reference"), "reference", inputs, e2)
        ELSE IF ~recommendation.ok
        THEN Raised(RaisedAs("recommendation"), "recommendation", inputs, e3)
        ELSE IF parsed = NoPrice
        THEN Raised(RaisedAs("unparseable"), "unparseable", inputs, e3)
        ELSE Returned(StateUnion(inputs, "suggested_budget", Clamp(parsed.v, known)), e3)

(***************************************************************************)
(* finance_graph.py: the search stage.                                     *)
(***************************************************************************)
\* search_result: the dict of lines 199-204, or a string, or None.
SearchResult(shape, named, price, url, msg) ==
    [shape |-> shape, named |-> named, price |-> price, url |-> url, msg |-> msg]
SearchString(msg) == SearchResult("string", FALSE, NoPrice, NoUrl, msg)
SearchNone == SearchResult("none", FALSE, NoPrice, NoUrl, "")

\* The first tool call of the reply, with whether its product_name is non-empty.
PipelineToolCalls ==
    {[call |-> c, named |-> n] : c \in ToolCalls \cup
        {ToolCall("record_product_found", "ok", NumPrice(0), Url("shop.com", ""))},
        n \in BOOLEAN}

\* What client.chat.completions.create does at line 173: a reply raises, is a text (with the first URL in it, if any), has no content,
\* or carries tool calls.
SearchReply(kind, first, url) == [kind |-> kind, first |-> first, url |-> url]
NoFirst == [call |-> NoCall, named |-> FALSE]
NoSearchReply == SearchReply("none", NoFirst, NoUrl)
SearchReplies ==
    {SearchReply("raises", NoFirst, NoUrl), SearchReply("text_none", NoFirst, NoUrl)}
    \cup {SearchReply("text", NoFirst, u) : u \in TextUrls}
    \cup {SearchReply("tool_calls", f, NoUrl) : f \in PipelineToolCalls}

\* lines 186-220: every branch of the loop body returns, so the first call decides.
FirstToolCall(c, named, cap) ==
    IF c.name # "record_product_found" THEN SearchString("unknown_tool")
    ELSE IF c.json = "malformed" \/ c.price.t = "str" THEN SearchString("parse_error")
    ELSE IF c.price.t = "num" /\ c.price.v <= cap
    THEN SearchResult("found", named, c.price, c.url, "found")
    ELSE SearchString("above_cap")

\* lines 227-231: except Exception around the request and its handling.
SearchCallFailed_Propagates(inputs) ==
    Raised("APIError", "search", inputs, <<"request:search">>)
SearchCallFailed_Retries(inputs) ==
    Returned(StateUnion(inputs, "search_result", SearchString("search_error")),
             <<"request:search", "request:search">>)
SearchCallFailed(inputs) ==
    Returned(StateUnion(inputs, "search_result", SearchString("search_error")),
             <<"request:search">>)

\* lines 117-231.
web_search_agent(inputs, key, reply) ==
    LET cap == inputs["suggested_budget"]
        e == <<"request:search">>
        result ==
            CASE reply.kind = "text" -> SearchString("text")
              [] reply.kind = "text_none" -> SearchNone
              [] reply.kind = "tool_calls" ->
                    FirstToolCall(reply.first.call, reply.first.named, cap)
    IN  IF CredentialMissing(key)
        THEN Raised(RaisedAs("credential"), "credential", inputs, <<>>)
        ELSE IF reply.kind = "raises"
        THEN SearchCallFailed(inputs)
        ELSE Returned(StateUnion(inputs, "search_result", result), e)

(***************************************************************************)
(* finance_graph.py: the notify stage.                                     *)
(***************************************************************************)
\* lines 243-258: the price shown, the search result's or the budget.
NotifyPrice(inputs) ==
    LET sr == inputs["search_result"] IN
    IF sr.shape = "found" /\ sr.price.t = "num" THEN sr.price.v
    ELSE inputs["suggested_budget"]

\* lines 243-254: product_name is truthy.
NotifyNamed(inputs) ==
    LET sr == inputs["search_result"] IN
    IF sr.shape = "found" THEN sr.named ELSE inputs["product"] # ""

\* line 265: if product_name and price
NotifyCalls(inputs) == NotifyNamed(inputs) /\ NotifyPrice(inputs) # 0

\* lines 266-273: the arguments notify_agent passes.
NotifyAgentArgs(key) ==
    [api_key |-> key, use_email |-> FALSE, user_contact |-> None,
     price |-> "number", links |-> "list"]

\* lines 234-277. out: what send_notification did, NotCalled if skipped.
notify_agent_Resends(inputs, out) ==
    Returned(StateUnion(inputs, "notification_sent", out.ret = "True"),
             IF out = NotCalled THEN <<>> ELSE <<"send_notification", "send_notification">>)
notify_agent(inputs, out) ==
    Returned(StateUnion(inputs, "notification_sent", out.ret = "True"),
             IF out = NotCalled THEN <<>> ELSE <<"send_notification">>)

(***************************************************************************)
(* finance_graph.py: build_finance_graph and run_finance_graph.            *)
(***************************************************************************)
EntryPoint == "SuggestBudgetAgent"
NextNode_ReEnters(node) ==
    CASE node = "SuggestBudgetAgent" -> "WebSearchAgent"
      [] node = "WebSearchAgent" -> "NotifyAgent"
      [] node = "NotifyAgent" -> "WebSearchAgent"
NextNode(node) ==
    CASE node = "SuggestBudgetAgent" -> "WebSearchAgent"
      [] node = "WebSearchAgent" -> "NotifyAgent"
      [] node = "NotifyAgent" -> "END"

Products == {"iphone"}
Timeframes == {"2025-10-21", "in 3 months"}
FinancialsPaths == {None, "data/bank.xlsx"}

NoFailure == [node |-> "none", exc |-> "none", cause |-> "none"]

PipelineQuiet ==
    /\ ppc = "idle"
    /\ pstate = [product |-> "", timeframe |-> "", financials_path |-> None]
    /\ max_price = NoPrice
    /\ val = NoPrice
    /\ reference_reply = NoCompletion
    /\ recommendation_reply = NoCompletion
    /\ search_reply = NoSearchReply
    /\ failure = NoFailure
    /\ plog = <<>>

\* lines 312-319: graph.invoke(inputs)
RunFinanceGraph ==
    /\ ppc = "idle"
    /\ \E product \in Products, timeframe \in Timeframes, path \in FinancialsPaths :
        pstate' = [product |-> product, timeframe |-> timeframe, financials_path |-> path]
    /\ ppc' = EntryPoint
    /\ UNCHANGED <<max_price, val, reference_reply, recommendation_reply, search_reply,
                   failure, plog>>
    /\ UNCHANGED <<searchVars, notifyVars, hardCapVars, dashVars>>

\* A node ran: the graph moves along its edge, or the exception leaves invoke.
NodeDone_ContinuesOnError(node, out) ==
    /\ plog' = plog \o <<node>> \o out.events
    /\ pstate' = out.state
    /\ ppc' = NextNode(node)
    /\ failure' = IF out.exc = "none" THEN failure
                  ELSE [node |-> node, exc |-> out.exc, cause |-> out.cause]
NodeDone(node, out) ==
    /\ plog' = plog \o <<node>> \o out.events
    /\ IF out.exc = "none"
       THEN /\ pstate' = out.state
            /\ ppc' = NextNode(node)
            /\ failure' = failure
       ELSE /\ pstate' = pstate
            /\ ppc' = "raised"
            /\ failure' = [node |-> node, exc |-> out.exc, cause |-> out.cause]

SuggestBudgetAgent ==
    /\ ppc = "SuggestBudgetAgent"
    /\ \E load_ok \in BOOLEAN, reference \in Completions, recommendation \in Completions :
        LET out == suggest_budget_agent(pstate, env_openai_api_key, load_ok,
                                        reference, recommendation)
        IN  /\ NodeDone("SuggestBudgetAgent", out)
            /\ max_price' = IF out.cause \in {"credential", "financials", "reference"}
                            THEN NoPrice ELSE lookup_max_price_via_llm(reference.text)
            /\ val' = IF out.exc = "none" THEN ParseRecommendation(recommendation.text)
                      ELSE NoPrice
            /\ reference_reply' = IF out.cause \in {"credential", "financials"}
                                  THEN NoCompletion ELSE reference
            /\ recommendation_reply' =
                    IF out.cause \in {"credential", "financials", "reference"}
                    THEN NoCompletion ELSE recommendation
    /\ UNCHANGED search_reply
    /\ UNCHANGED <<searchVars, notifyVars, hardCapVars, dashVars>>

WebSearchAgent ==
    /\ ppc = "WebSearchAgent"
    /\ \E reply \in SearchReplies :
        /\ NodeDone("WebSearchAgent", web_search_agent(pstate, env_openai_api_key, reply))
        /\ search_reply' = IF CredentialMissing(env_openai_api_key)
                           THEN NoSearchReply ELSE reply
    /\ UNCHANGED <<max_price, val, reference_reply, recommendation_reply>>
    /\ UNCHANGED <<searchVars, notifyVars, hardCapVars, dashVars>>

NotifyAgent ==
    /\ ppc = "NotifyAgent"
    /\ IF NotifyCalls(pstate)
       THEN \E send_ok \in BOOLEAN :
            LET args == NotifyAgentArgs(env_openai_api_key)
                out == send_notification(args, env_openai_api_key, resend_ready, send_ok)
            IN  /\ notify_args' = args
                /\ notify_out' = out
                /\ NodeDone("NotifyAgent", notify_agent(pstate, out))
       ELSE /\ UNCHANGED <<notify_args, notify_out>>
            /\ NodeDone("NotifyAgent", notify_agent(pstate, NotCalled))
    /\ search_reply' = NoSearchReply
    /\ UNCHANGED <<max_price, val, reference_reply, recommendation_reply,
                   env_openai_api_key, resend_ready>>
    /\ UNCHANGED <<searchVars, hardCapVars, dashVars>>

(***************************************************************************)
(* web-search.py: the older search script. It has no match flag and no     *)
(* block-list; get_openai_response returns strings.                        *)
(***************************************************************************)
\* line 109: price is not None and price <= current_search_price_cap
HardCap_WithinCap(price, cap) == price.t = "num" /\ price.v <= cap

\* What one call leaves behind: its return value, the transcript, and whether
\* handle_price_match ran.
HardCap_Out(result, hist, matched) == [result |-> result, hist |-> hist, matched |-> matched]

\* lines 95-133: every iteration of the for loop returns or breaks, so the
\* first tool call decides. The assistant message is not appended (line 91).
HardCap_FirstToolCall(c, hist, cap) ==
    IF c.name # "record_product_found"
    THEN {HardCap_Out(StringResult("unknown_tool"), hist, FALSE)}
    ELSE IF c.json = "malformed"
    THEN {HardCap_Out(StringResult("malformed"), hist, FALSE)}
    ELSE IF c.price.t = "str"
    THEN {HardCap_Out(StringResult("tool_error"), hist, FALSE)}
    ELSE IF HardCap_WithinCap(c.price, cap)
    \* lines 111-112: handle_price_match, break; the function ends without return
    THEN {HardCap_Out(NoneResult, hist, TRUE)}
    \* lines 118-133: the tool result is recorded and a follow-up request made,
    \* which succeeds or raises (caught at line 138)
    ELSE {HardCap_Out(StringResult("followup"),
                      Append(Append(hist, ToolEntry(1)), AssistantEntry(0)), FALSE),
          HardCap_Out(StringResult("tool_error"), Append(hist, ToolEntry(1)), FALSE)}

\* lines 57-154.
HardCap_get_openai_response(hist, cap) ==
    \* lines 149-154: the request raises
    {HardCap_Out(StringResult("api_error"), hist, FALSE)}
    \* lines 143-147: a reply without tool calls; its content is a text or None
    \cup {HardCap_Out(StringResult("text"), Append(hist, AssistantEntry(0)), FALSE),
          HardCap_Out(NoneResult, Append(hist, AssistantEntry(0)), FALSE)}
    \cup UNION {HardCap_FirstToolCall(c, hist, cap) : c \in ToolCalls}

\* line 161: while days_passed < duration_days
HardCap_LoopContinues_OneMore(passed, days) == passed <= days
HardCap_LoopContinues(passed, days) == passed < days

\* line 173: if days_passed < duration_days
HardCap_WaitsBeforeNextCycle(passed, days) == passed < days

HardCapIdle ==
    /\ hc_conversation_history = <<>>
    /\ hc_pc = "idle"
    /\ hc_price_cap_dollors = 0
    /\ hc_duration_days = 0
    /\ hc_days_passed = 0
    /\ hc_ai_response = NoneResult
    /\ hc_attempts = 0
    /\ hc_sleeps = 0
    /\ hc_match_cycle = 0

\* lines 157-159: the call of product_web_search_entry (line 181 makes one
\* when the script is run).
HardCap_StartSearch ==
    /\ hc_pc = "idle"
    /\ \E cap \in PriceCaps, days \in DurationDays :
        /\ hc_price_cap_dollors' = cap
        /\ hc_duration_days' = days
    /\ hc_days_passed' = 0
    /\ hc_pc' = "while"
    /\ UNCHANGED <<hc_conversation_history, hc_ai_response, hc_attempts, hc_sleeps,
                   hc_match_cycle>>
    /\ UNCHANGED <<searchVars, notifyVars, pipeVars, dashVars>>

\* line 161: the loop test.
HardCap_LoopTest ==
    /\ hc_pc = "while"
    /\ hc_pc' = IF HardCap_LoopContinues(hc_days_passed, hc_duration_days)
                THEN "cycle" ELSE "done"
    /\ UNCHANGED <<hc_conversation_history, hc_price_cap_dollors, hc_duration_days,
                   hc_days_passed, hc_ai_response, hc_attempts, hc_sleeps, hc_match_cycle>>
    /\ UNCHANGED <<searchVars, notifyVars, pipeVars, dashVars>>

\* lines 162-177: one cycle, up to the wait.
HardCap_SearchCycle ==
    /\ hc_pc = "cycle"
    /\ \E out \in HardCap_get_openai_response(hc_conversation_history,
                                               hc_price_cap_dollors) :
        /\ hc_conversation_history' = out.hist
        /\ hc_ai_response' = out.result
        /\ hc_match_cycle' = IF out.matched /\ hc_match_cycle = 0
                             THEN hc_attempts + 1 ELSE hc_match_cycle
    /\ hc_attempts' = hc_attempts + 1
    /\ hc_days_passed' = hc_days_passed + 1
    /\ hc_pc' = IF HardCap_WaitsBeforeNextCycle(hc_days_passed + 1, hc_duration_days)
                THEN "sleep" ELSE "while"
    /\ UNCHANGED <<hc_price_cap_dollors, hc_duration_days, hc_sleeps>>
    /\ UNCHANGED <<searchVars, notifyVars, pipeVars, dashVars>>

\* line 175: time.sleep(delay_seconds)
HardCap_Sleep ==
    /\ hc_pc = "sleep"
    /\ hc_sleeps' = hc_sleeps + 1
    /\ hc_pc' = "while"
    /\ UNCHANGED <<hc_conversation_history, hc_price_cap_dollors, hc_duration_days,
                   hc_days_passed, hc_ai_response, hc_attempts, hc_match_cycle>>
    /\ UNCHANGED <<searchVars, notifyVars, pipeVars, dashVars>>

(***************************************************************************)
(* app.py: the dashboard. Streamlit runs main from the top after every     *)
(* interaction; st.session_state is what survives from one run to the      *)
(* next, and at most one button reads True in a run.                       *)
(***************************************************************************)
\* The goal the user typed.
GoalTexts == {"", "buy a tv", "buy a phone"}

\* intent.model_dump(), or None: the fields main reads.
IntentData(product, timeframe, provide_financials) ==
    [set |-> TRUE, product |-> product, timeframe |-> timeframe,
     provide_financials |-> provide_financials]
NoIntent == [set |-> FALSE, product |-> "", timeframe |-> "", provide_financials |-> FALSE]
\* What parse_intent extracts; analyze_goal returns None when it raises.
ParsedIntents ==
    {IntentData(p, t, f) : p \in {"", "tv"}, t \in {"", "unknown", "in 3 months"},
                           f \in BOOLEAN}
    \cup {NoIntent}

\* The values of the widgets of prompt_missing_fields.
Widgets(product, timeframe, provide_financials) ==
    [product |-> product, timeframe |-> timeframe, provide_financials |-> provide_financials]
WidgetValues ==
    {Widgets(p, t, f) : p \in {"", "tv"}, t \in {"", "in 3 months", "someday"},
                        f \in BOOLEAN}
\* Untouched widgets: empty text inputs, the radio at its index (line 70).
Shown(data) == Widgets("", "", data.provide_financials)

\* The temporary file handle_file_upload writes (lines 37-41).
TmpPath == "upload.xlsx"

\* lines 86-99: the defaults of a new session; agent_result has none.
Unset == "<unset>"
SessionDefaults ==
    /\ session_state = [intent |-> NoIntent, intent_data |-> NoIntent, xlsx_path |-> None,
                        analyzed |-> FALSE, dispatched |-> FALSE,
                        ready_to_confirm |-> FALSE, last_user_text |-> "",
                        agent_result |-> Unset]
    /\ dash_out = [error |-> "none", confirmed |-> FALSE, invoked |-> FALSE,
                   pipeline |-> "none"]

\* What a run of the script shows and does besides the session state.
DashOut(error, confirmed, invoked, pipeline) ==
    [error |-> error, confirmed |-> confirmed, invoked |-> invoked, pipeline |-> pipeline]
Quiet == DashOut("none", FALSE, FALSE, "none")
Ran(s, out) == [session |-> s, out |-> out]

\* lines 107-114: the flow is reset when the goal text changed.
ResetFlow(s, user_text) ==
    [s EXCEPT !.analyzed = FALSE, !.intent = NoIntent, !.intent_data = NoIntent,
              !.xlsx_path = None, !.dispatched = FALSE, !.ready_to_confirm = FALSE,
              !.last_user_text = user_text]

\* lines 51-74.
prompt_missing_fields(data, w) ==
    [data EXCEPT
        !.product = IF data.product = "" THEN w.product ELSE @,
        !.timeframe = IF data.timeframe \in {"", "unspecified", "unknown", "n/a"}
                      THEN w.timeframe ELSE @,
        !.provide_financials = w.provide_financials]

\* lines 76-82.
all_fields_filled(data) == data.product # "" /\ data.timeframe # ""

\* cli.py lines 91-105: the ISO date dateparser finds, else the text itself.
parse_timeframe_to_date(tf) == IF tf = "in 3 months" THEN "2027-02-05" ELSE tf

\* cli.py lines 78-88: def entry_point(intent, xlsx_path). A call with any other
\* keyword raises TypeError before the body runs; the body calls
\* run_finance_graph, echoes its result and ends without a return statement.
PipelineOutcomes == {"final_state", "raises"}
entry_point(intent, xlsx_path, keywords, pipeline) ==
    IF keywords # {}
    THEN [exc |-> "TypeError", invoked |-> FALSE, value |-> None]
    ELSE IF pipeline = "raises"
    THEN [exc |-> "RuntimeError", invoked |-> TRUE, value |-> None]
    ELSE [exc |-> "none", invoked |-> TRUE, value |-> None]

\* line 168: entry_point(intent_obj, st.session_state.xlsx_path, return_result=True)
ConfirmKeywords == {"return_result"}

\* lines 140-176: the confirmation step of a run.
ConfirmSection(s, pressed, uploaded, pipeline) ==
    LET s5 == [s EXCEPT !.intent_data.timeframe = parse_timeframe_to_date(@)]
        intent_obj == s5.intent_data
        needs_financials == intent_obj.provide_financials
        s6 == IF needs_financials
              THEN IF uploaded THEN [s5 EXCEPT !.xlsx_path = TmpPath] ELSE s5
              ELSE [s5 EXCEPT !.xlsx_path = None]
        can_confirm == ~needs_financials \/ s6.xlsx_path # None
    IN  IF pressed = "confirm" /\ ~s6.dispatched /\ can_confirm
        THEN LET result == entry_point(intent_obj, s6.xlsx_path, ConfirmKeywords, pipeline)
             IN  IF result.exc = "none"
                 THEN Ran([s6 EXCEPT !.agent_result = result.value, !.dispatched = TRUE],
                          DashOut("none", TRUE, result.invoked, pipeline))
                 \* lines 171-173: st.error, st.stop
                 ELSE Ran(s6, DashOut(result.exc, TRUE, result.invoked, pipeline))
        ELSE Ran(s6, Quiet)

\* lines 84-176: one run of the script. user_text: the goal text; pressed: the
\* button that reads True; parsed: what analyze_goal returns; w: the values of
\* the form's widgets, when touched; uploaded: whether the uploader holds a
\* file; pipeline: what run_finance_graph would do.
main(s, user_text, pressed, parsed, touched, w, uploaded, pipeline) ==
    LET s1 == IF user_text # s.last_user_text THEN ResetFlow(s, user_text) ELSE s
        analyzing == pressed = "analyze" /\ ~s1.analyzed
        s2 == IF analyzing
              THEN [s1 EXCEPT !.intent = parsed, !.intent_data = parsed, !.analyzed = TRUE]
              ELSE s1
        prompting == s2.analyzed /\ s2.intent_data.set /\ ~s2.ready_to_confirm
        s3 == IF prompting
              THEN [s2 EXCEPT !.intent_data =
                        prompt_missing_fields(@, IF touched THEN w ELSE Shown(@))]
              ELSE s2
        s4 == IF prompting /\ all_fields_filled(s3.intent_data) /\ pressed = "continue"
              THEN [s3 EXCEPT !.ready_to_confirm = TRUE]
              ELSE s3
    IN  \* lines 116-118: st.stop
        IF user_text = "" THEN Ran(s1, Quiet)
        \* lines 124-129: analyze_goal returned None
        ELSE IF analyzing /\ ~parsed.set THEN Ran(s1, DashOut("parse_intent", FALSE, FALSE, "none"))
        ELSE IF ~s4.ready_to_confirm THEN Ran(s4, Quiet)
        ELSE ConfirmSection(s4, pressed, uploaded, pipeline)

Rerun(user_text, pressed, parsed, touched, w, uploaded, pipeline) ==
    LET r == main(session_state, user_text, pressed, parsed, touched, w, uploaded, pipeline)
    IN  /\ session_state' = r.session
        /\ dash_out' = r.out
        /\ UNCHANGED <<searchVars, notifyVars, pipeVars, hardCapVars>>

\* The user edits the goal text (lines 101-118).
EditGoal ==
    \E user_text \in GoalTexts \ {session_state.last_user_text} :
        Rerun(user_text, "none", NoIntent, FALSE, Shown(NoIntent), FALSE, "none")

\* The user presses Analyze Goal (lines 120-129); the button is drawn once a
\* goal is entered.
PressAnalyze ==
    /\ session_state.last_user_text # ""
    /\ \E parsed \in ParsedIntents :
        Rerun(session_state.last_user_text, "analyze", parsed, FALSE, Shown(NoIntent),
              FALSE, "none")

\* The user changes a widget of the form (lines 131-138).
FillFields ==
    /\ session_state.analyzed
    /\ ~session_state.ready_to_confirm
    /\ \E w \in WidgetValues :
        Rerun(session_state.last_user_text, "none", NoIntent, TRUE, w, FALSE, "none")

\* The user presses Continue (lines 134-136), drawn when all fields are filled.
PressContinue ==
    /\ session_state.analyzed
    /\ ~session_state.ready_to_confirm
    /\ all_fields_filled(session_state.intent_data)
    /\ Rerun(session_state.last_user_text, "continue", NoIntent, FALSE, Shown(NoIntent),
             FALSE, "none")

\* The user puts a file into the uploader or takes it out (lines 150-160).
Upload ==
    /\ session_state.ready_to_confirm
    /\ session_state.intent_data.provide_financials
    /\ \E uploaded \in BOOLEAN :
        Rerun(session_state.last_user_text, "none", NoIntent, FALSE, Shown(NoIntent),
              uploaded, "none")

\* The user presses Confirm & Run Agents (lines 162-176), drawn once the flow
\* is ready to confirm.
PressConfirm ==
    /\ session_state.ready_to_confirm
    /\ \E uploaded \in BOOLEAN, pipeline \in PipelineOutcomes :
        /\ Rerun(session_state.last_user_text, "confirm", NoIntent, FALSE, Shown(NoIntent),
                 uploaded, pipeline)

(***************************************************************************)
(* Specifications.                                                         *)
(***************************************************************************)
SearchQuiet ==
    /\ SearchInit
    /\ blocked_domains = {}

Init == SearchInit /\ NotifyQuiet /\ PipelineQuiet /\ HardCapIdle /\ SessionDefaults

Next == StartSearch \/ LoopTest \/ SearchCycle \/ Sleep

Spec == Init /\ [][Next]_vars

NotifyInit == SearchQuiet /\ NotifyStart /\ PipelineQuiet /\ HardCapIdle /\ SessionDefaults

NotifyNext == SendNotification

NotifySpec == NotifyInit /\ [][NotifyNext]_vars

PipelineInit == SearchInit /\ NotifyStart /\ PipelineQuiet /\ HardCapIdle /\ SessionDefaults

PipelineNext == RunFinanceGraph \/ SuggestBudgetAgent \/ WebSearchAgent \/ NotifyAgent

PipelineSpec == PipelineInit /\ [][PipelineNext]_vars

HardCapInit == SearchQuiet /\ NotifyQuiet /\ PipelineQuiet /\ HardCapIdle /\ SessionDefaults

HardCapNext == HardCap_StartSearch \/ HardCap_LoopTest \/ HardCap_SearchCycle \/ HardCap_Sleep

HardCapSpec == HardCapInit /\ [][HardCapNext]_vars

\* The process runs one of the two programs that search: the polling loop of
\* web_search.py or the pipeline of finance_graph.py.
SearchStageNext == (ppc = "idle" /\ Next) \/ (pc = "idle" /\ PipelineNext)

SearchStageSpec == Init /\ [][SearchStageNext]_vars

\* The process notifies in one of two ways: through the pipeline's notify_agent
\* or by calling send_notification itself, as notify.py's main does.
DeliveryNext == (notify_out = NotCalled /\ PipelineNext) \/ (ppc = "idle" /\ NotifyNext)

DeliverySpec == PipelineInit /\ [][DeliveryNext]_vars

\* The dashboard alone.
DashboardInit == SearchQuiet /\ NotifyQuiet /\ PipelineQuiet /\ HardCapIdle /\ SessionDefaults

DashboardNext ==
    EditGoal \/ PressAnalyze \/ FillFields \/ PressContinue \/ Upload \/ PressConfirm

DashboardSpec == DashboardInit /\ [][DashboardNext]_vars

(***************************************************************************)
(* Properties of the search loop (Spec).                                   *)
(***************************************************************************)
Events(log) == {log[i] : i \in DOMAIN log}
Min(a, b) == IF a <= b THEN a ELSE b

\* C1: with duration_days = N >= 1, a run in which no cycle is accepted makes
\* exactly N calls of get_openai_response and then stops: it never starts an
\* (N+1)-th cycle.
C1_NoMatchExactlyNAttempts ==
    (pc # "idle" /\ duration_days >= 1 /\ match_cycle = 0 /\ ~price_match_found)
        => /\ attempts <= duration_days
           /\ (pc = "cycle" => attempts < duration_days)

C3_NoWaitAfterMatch ==
    [][price_match_found =>
        /\ pc' \notin {"sleep", "cycle"}
        /\ sleeps' <= sleeps
        /\ attempts' <= attempts]_vars

\* The run ended on a match with cycles of duration_days remaining and without a wait.
C3_Witness ==
    /\ price_match_found
    /\ pc = "done"
    /\ match_cycle = 1
    /\ days_passed < duration_days
    /\ sleeps = 0

(***************************************************************************)
(* Properties of the pipeline (PipelineSpec).                              *)
(***************************************************************************)
\* C4: when the reference price r is known, the budget the advisor returns is
\* min(v, r) for the parsed recommendation v, hence never greater than r.
C4_ClampInvariant ==
    ("suggested_budget" \in DOMAIN pstate /\ max_price.t = "num")
        => /\ pstate["suggested_budget"] = Min(val.v, max_price.v)
           /\ pstate["suggested_budget"] <= max_price.v

\* A recommendation above the reference price was clamped to the reference price.
C4_Witness ==
    /\ "suggested_budget" \in DOMAIN pstate
    /\ max_price = NumPrice(1)
    /\ val = NumPrice(2)
    /\ pstate["suggested_budget"] = 1

\* C5: in the polling loop and in the pipeline's search stage alike, a result
\* surfaced as Found never has a URL whose host is on the block-list.
C5_BlockedNeverFound ==
    /\ ai_response.shape = "found" => ai_response.url.host \notin blocked_domains
    /\ ("search_result" \in DOMAIN pstate /\ pstate["search_result"].shape = "found")
            => pstate["search_result"].url.host \notin blocked_domains

\* The budget stage ran and left no suggested_budget.
BudgetStageFailed ==
    /\ "SuggestBudgetAgent" \in Events(plog)
    /\ ppc # "SuggestBudgetAgent"
    /\ "suggested_budget" \notin DOMAIN pstate

\* C6: when the budget stage fails, the run is aborted: neither later stage is
\* entered, no search request is issued and no notification is sent.
C6_BudgetFailureAborts ==
    BudgetStageFailed
        => /\ ppc = "raised"
           /\ failure.node = "SuggestBudgetAgent"
           /\ Events(plog) \cap {"WebSearchAgent", "NotifyAgent", "request:search",
                                 "send_notification"} = {}
           /\ notify_out = NotCalled

\* The recommendation could not be parsed and the run stopped there.
C6_Witness ==
    /\ BudgetStageFailed
    /\ failure.cause = "unparseable"
    /\ plog = <<"SuggestBudgetAgent", "load", "request:reference", "request:recommendation">>

\* The field a node adds to the state.
OwnField(node) ==
    CASE node = "SuggestBudgetAgent" -> "suggested_budget"
      [] node = "WebSearchAgent" -> "search_result"
      [] node = "NotifyAgent" -> "notification_sent"

\* C7: every stage returns its input state plus only its own field: the fields
\* it received keep their values and the only field that may appear is its own.
C7_StateUnion ==
    [][(ppc \in {"SuggestBudgetAgent", "WebSearchAgent", "NotifyAgent"} /\ ppc' # ppc)
        => /\ \A k \in DOMAIN pstate : k \in DOMAIN pstate' /\ pstate'[k] = pstate[k]
           /\ DOMAIN pstate' \subseteq DOMAIN pstate \cup {OwnField(ppc)}]_vars

\* A run with a financials path went through the three stages.
C7_Witness ==
    /\ ppc = "END"
    /\ DOMAIN pstate = {"product", "timeframe", "financials_path", "suggested_budget",
                        "search_result", "notification_sent"}
    /\ pstate["financials_path"] = "data/bank.xlsx"
    /\ pstate["search_result"].shape = "found"

(***************************************************************************)
(* Properties of send_notification (NotifySpec).                           *)
(***************************************************************************)
Called == notify_out # NotCalled

\* C8: a call whose secret differs from the configured one, or made when no
\* secret is configured, returns False and attempts no delivery: no email is
\* tried and nothing of the textual fallback is printed.
C8_UnauthorizedNoDelivery ==
    (Called /\ (env_openai_api_key \in {None, ""}
                \/ notify_args.api_key # env_openai_api_key))
        => /\ notify_out.ret = "False"
           /\ notify_out.email = "not_tried"
           /\ notify_out.fallback = "none"

\* No secret is configured and the caller supplied none either.
C8_Witness ==
    /\ Called
    /\ env_openai_api_key = None
    /\ notify_args.api_key = None
    /\ notify_out.ret = "False"

\* C9: an authorized call with use_email true and an '@' contact whose email
\* attempt raises still prints the textual fallback and returns True.
C9_FallbackDelivery ==
    (/\ Called
     /\ notify_out.auth = "ok"
     /\ notify_args.use_email
     /\ ContainsAt(notify_args.user_contact)
     /\ notify_out.email = "raised")
        => /\ notify_out.fallback = "full"
           /\ notify_out.ret = "True"

\* C10: send_notification never raises: whatever the arguments and whatever
\* fails inside, the call returns a boolean.
C10_NeverRaises == Called => notify_out.ret \in {"True", "False"}

\* An authorized call whose fallback rendering failed half-way returned False.
C10_Witness ==
    /\ Called
    /\ notify_out.auth = "ok"
    /\ notify_out.email = "raised"
    /\ notify_out.fallback = "partial"
    /\ notify_out.ret = "False"

\* C11: send_notification returns False only when authorization fails: a call
\* whose api_key equals the configured non-empty OPENAI_API_KEY returns True
\* for every product, price and links, links None and an unformattable price
\* included.
C11_FalseOnlyWhenUnauthorized ==
    (/\ Called
     /\ env_openai_api_key \notin {None, ""}
     /\ notify_args.api_key = env_openai_api_key)
        => notify_out.ret = "True"

(***************************************************************************)
(* Properties of the pipeline's search and notify stages (PipelineSpec).   *)
(***************************************************************************)
BudgetStageSucceeded == "suggested_budget" \in DOMAIN pstate

\* C12: once the budget stage has succeeded the pipeline runs to completion
\* whatever the search yields: the search stage raises nothing, a stage is
\* always ready to run until END, notify_agent runs, and the final state holds
\* both search_result and notification_sent.
C12_SearchNeverAborts ==
    /\ BudgetStageSucceeded =>
            /\ ppc \in {"WebSearchAgent", "NotifyAgent", "END"}
            /\ failure = NoFailure
    /\ (BudgetStageSucceeded /\ ppc # "END") => ENABLED (WebSearchAgent \/ NotifyAgent)
    /\ (BudgetStageSucceeded /\ ppc = "NotifyAgent") => "search_result" \in DOMAIN pstate
    /\ ppc = "END" =>
            /\ {"suggested_budget", "search_result", "notification_sent"} \subseteq DOMAIN pstate
            /\ "NotifyAgent" \in Events(plog)

\* The search request raised, and the run still ended after notify_agent.
C12_Witness ==
    /\ ppc = "END"
    /\ "search_result" \in DOMAIN pstate
    /\ pstate["search_result"] = SearchString("search_error")
    /\ "notification_sent" \in DOMAIN pstate
    /\ "NotifyAgent" \in Events(plog)

\* C13: a record_product_found call whose price is above the cap, or whose url
\* is absent or empty, is never accepted as a Found result, in the polling
\* loop and in the pipeline's web_search_agent alike.
C13_OverCapOrNoUrlNeverFound ==
    /\ (ai_response.shape = "found" /\ price_match_found) =>
            /\ ai_response.url # NoUrl
            /\ ai_response.price.t = "num" => ai_response.price.v <= current_search_price_cap
    /\ ("search_result" \in DOMAIN pstate /\ pstate["search_result"].shape = "found") =>
            /\ pstate["search_result"].url # NoUrl
            /\ pstate["search_result"].price.v <= pstate["suggested_budget"]

C15_NoCredentialFailsFirst ==
    (env_openai_api_key \in {None, ""} /\ ppc \notin {"idle", "SuggestBudgetAgent"}) =>
        /\ ppc = "raised"
        /\ failure.node = "SuggestBudgetAgent"
        /\ plog = <<"SuggestBudgetAgent">>
        /\ reference_reply = NoCompletion
        /\ recommendation_reply = NoCompletion
        /\ ~BudgetStageSucceeded

\* The credential is the empty string, a financial source was named, and the
\* stage failed without touching it.
C15_Witness ==
    /\ env_openai_api_key = ""
    /\ ppc = "raised"
    /\ pstate["financials_path"] # None
    /\ plog = <<"SuggestBudgetAgent">>

\* C16: a reference-price reply that is no number is not fatal: the reference
\* price is unknown, the recommendation is still requested, and the suggested
\* budget is the parsed recommendation, unclamped.
C16_UnknownReferenceNotFatal ==
    (reference_reply.ok /\ reference_reply.text.form \notin {"plain", "comma"}) =>
        /\ max_price = NoPrice
        /\ "request:recommendation" \in Events(plog)
        /\ failure.cause # "reference"
        /\ recommendation_reply # NoCompletion
        /\ (recommendation_reply.ok /\ recommendation_reply.text.form # "words") =>
                /\ BudgetStageSucceeded
                /\ pstate["suggested_budget"] = recommendation_reply.text.v

\* The reference reply was words, and the budget is the largest amount.
C16_Witness ==
    /\ reference_reply = Completion(TRUE, Text("words", 0))
    /\ recommendation_reply.ok
    /\ BudgetStageSucceeded
    /\ pstate["suggested_budget"] = MaxAmount

\* C17: a recommendation reply that is no number fails the budget stage: no
\* suggested_budget is written, and nothing derived from the reference price
\* takes its place.
C17_UnparseableRecommendationFails ==
    (recommendation_reply.ok /\ recommendation_reply.text.form = "words") =>
        /\ ppc = "raised"
        /\ failure = [node |-> "SuggestBudgetAgent", exc |-> "RuntimeError",
                      cause |-> "unparseable"]
        /\ ~BudgetStageSucceeded
        /\ val = NoPrice

\* The reference price was known when the recommendation could not be parsed.
C17_Witness ==
    /\ recommendation_reply = Completion(TRUE, Text("words", 0))
    /\ max_price = NumPrice(1)
    /\ ppc = "raised"
    /\ ~BudgetStageSucceeded

\* C18: when the search result carries no price (a string, None, or a dict
\* whose price is null), notify_agent shows suggested_budget as the price and
\* still emits a notification, for every suggested_budget, 0 included.
C18_MissingPriceStillNotifies ==
    (/\ ppc = "END"
     /\ pstate["search_result"].price = NoPrice)
        => /\ NotifyPrice(pstate) = pstate["suggested_budget"]
           /\ "send_notification" \in Events(plog)
           /\ Called

(***************************************************************************)
(* Properties of the transcript and of successive searches (Spec).         *)
(***************************************************************************)
Roles(hist, role) == {i \in DOMAIN hist : hist[i].role = role}

\* C19: after every cycle conversation_history holds that cycle's user prompt
\* and the outcome of every record_product_found call handled in it, accepted,
\* above the cap or blocked, so that later cycles are sent the whole exchange.
C19_TranscriptComplete ==
    /\ Cardinality(Roles(conversation_history, "user")) >= attempts
    /\ (attempts > 0 /\ pc # "cycle" /\ ai_response.shape = "found" /\ price_match_found)
            => Roles(conversation_history, "tool") # {}

\* C20: searches do not interfere: a search started after an earlier one has
\* matched still performs attempts of its own, and starts from a transcript
\* that holds nothing of the earlier search.
C20_SearchesIndependent ==
    /\ (pc = "done" /\ runs >= 1) => attempts >= 1
    /\ (pc = "while" /\ attempts = 0 /\ runs >= 2) => conversation_history = <<>>

(***************************************************************************)
(* Properties of the order of the work: notifications, stages, waits.      *)
(***************************************************************************)
Count(log, e) == Cardinality({i \in DOMAIN log : log[i] = e})

\* The channels one send_notification call delivered through.
Deliveries(out) ==
    (IF out.email = "sent" THEN 1 ELSE 0) + (IF out.fallback # "none" THEN 1 ELSE 0)

\* C21: at most one notification is emitted per pipeline run: notify_agent
\* calls send_notification at most once, and a call delivers through at most
\* one channel, an email that was sent never being followed by the fallback.
C21_AtMostOneNotification ==
    /\ Count(plog, "send_notification") <= 1
    /\ Deliveries(notify_out) <= 1
    /\ notify_out.email = "sent" => notify_out.fallback = "none"

\* The run ended after exactly one call, which printed the whole fallback.
C21_Witness ==
    /\ ppc = "END"
    /\ Count(plog, "send_notification") = 1
    /\ notify_out.fallback = "full"
    /\ pstate["notification_sent"]

IsNode(e) == e \in {"SuggestBudgetAgent", "WebSearchAgent", "NotifyAgent"}
Chain == <<"SuggestBudgetAgent", "WebSearchAgent", "NotifyAgent">>
NodesRun == SelectSeq(plog, IsNode)

\* C22: the pipeline is a strict chain: the stages run in the order
\* SuggestBudgetAgent, WebSearchAgent, NotifyAgent, each at most once, each
\* only after the one before it has returned, and none is entered again.
C22_StrictChain ==
    /\ Len(NodesRun) <= Len(Chain)
    /\ NodesRun = SubSeq(Chain, 1, Len(NodesRun))
    /\ ppc = "SuggestBudgetAgent" => NodesRun = <<>>
    /\ ppc = "WebSearchAgent" => NodesRun = SubSeq(Chain, 1, 1) /\ BudgetStageSucceeded
    /\ ppc = "NotifyAgent" => NodesRun = SubSeq(Chain, 1, 2) /\ "search_result" \in DOMAIN pstate
    /\ ppc = "END" => NodesRun = Chain

\* All three stages ran.
C22_Witness ==
    /\ ppc = "END"
    /\ NodesRun = Chain

\* C23: any two consecutive attempts of a run of the search loop are separated
\* by exactly one wait: when a cycle is about to start, every earlier attempt
\* of the run has been followed by one sleep.
C23_WaitBetweenAttempts ==
    /\ pc = "cycle" => sleeps = attempts
    /\ hc_pc = "cycle" => hc_sleeps = hc_attempts

\* C24: every invocation of the search loop performs at least one attempt, for
\* every duration_days, 0 and negative values included.
C24_AtLeastOneAttempt ==
    /\ hc_pc = "done" => hc_attempts >= 1
    /\ (pc = "done" /\ runs = 1) => attempts >= 1

(***************************************************************************)
(* Properties of what a reply is turned into (SearchStageSpec, Spec).      *)
(***************************************************************************)
\* C25: a tool call whose name is not record_product_found yields a
\* message-only outcome: nothing is raised, the match flag is not set and no
\* Found result is produced, in the polling loop and in web_search_agent.
C25_UnknownToolIsMessage ==
    /\ (reply_seen.kind = "tool" /\ reply_seen.call.name # "record_product_found") =>
            /\ ai_response.shape = "message"
            /\ ~price_match_found
            /\ pc \in {"sleep", "while"}
    /\ (search_reply.kind = "tool_calls"
            /\ search_reply.first.call.name # "record_product_found") =>
            /\ ppc = "NotifyAgent"
            /\ failure = NoFailure
            /\ pstate["search_result"].shape = "string"

\* The loop handled an unknown tool that carried a price under the cap and a URL.
C25_Witness ==
    /\ reply_seen.kind = "tool"
    /\ reply_seen.call = ToolCall("other_tool", "ok", NumPrice(0), Url("shop.com", ""))
    /\ ai_response = MessageResult("unknown_tool")

\* C26: for a reply that is plain text, the search stage records a Found-shaped
\* result with price null exactly when the text holds a URL that is not
\* block-listed, and a plain message otherwise, in get_openai_response of the
\* polling loop and in web_search_agent.
C26_TextReplyUrlFallback ==
    /\ reply_seen.kind = "text" =>
            IF reply_seen.url # NoUrl /\ ~is_blocked_url(reply_seen.url, blocked_domains)
            THEN ai_response.shape = "found" /\ ai_response.price = NoPrice
            ELSE ai_response.shape = "message"
    /\ search_reply.kind = "text" =>
            IF search_reply.url # NoUrl /\ ~is_blocked_url(search_reply.url, blocked_domains)
            THEN /\ pstate["search_result"].shape = "found"
                 /\ pstate["search_result"].price = NoPrice
            ELSE pstate["search_result"].shape = "string"

\* The kinds of the error taxonomy.
TaxonomyKind(cause) ==
    CASE cause = "credential" -> "ConfigurationError"
      [] cause = "financials" -> "DataError"
      [] cause = "unparseable" -> "UpstreamParseError"
      [] OTHER -> "UpstreamError"
FatalCauses == {"credential", "financials", "reference", "recommendation", "unparseable"}

\* C27: a fatal stage error reaches the caller of run_finance_graph as a
\* failure that tells the taxonomy kinds apart: errors of two different kinds
\* never surface as the same exception. It is never turned into a returned state.
C27_StructuredFailure ==
    /\ failure # NoFailure => ppc = "raised" /\ ~BudgetStageSucceeded
    /\ ppc = "raised" =>
            \A c \in FatalCauses :
                TaxonomyKind(c) # TaxonomyKind(failure.cause) => RaisedAs(c) # failure.exc

IsPrefix(a, b) == Len(a) <= Len(b) /\ SubSeq(b, 1, Len(a)) = a

\* C29: the message list of each cycle's first request begins with the whole
\* transcript of the earlier cycles, in order, and the transcript only grows:
\* no step removes, reorders or changes an entry.
C29_TranscriptReplayedAsPrefix ==
    [][/\ IsPrefix(conversation_history, conversation_history')
       /\ pc = "cycle" =>
            /\ IsPrefix(conversation_history, messages_for_api')
            /\ Len(messages_for_api') > Len(conversation_history)]_vars

\* The second cycle of a run sent a transcript that was not empty.
C29_Witness ==
    /\ attempts = 2
    /\ Len(messages_for_api) > 2
    /\ IsPrefix(SubSeq(messages_for_api, 1, Len(messages_for_api) - 2), conversation_history)

Authorized ==
    /\ Called
    /\ env_openai_api_key \notin {None, ""}
    /\ notify_args.api_key = env_openai_api_key

\* C30: an email is sent only when use_email is true, the contact holds an '@'
\* and the email collaborator is configured; in every other authorized case
\* exactly the textual fallback is emitted.
C30_ChannelSelection ==
    Authorized =>
        /\ notify_out.email = "sent" =>
                /\ notify_args.use_email
                /\ ContainsAt(notify_args.user_contact)
                /\ resend_ready
                /\ notify_out.fallback = "none"
        /\ notify_out.email # "sent" => notify_out.fallback = "full"

\* C31: a reference-price reply that is a number written with a leading "$"
\* and/or "," separators yields that number as the known reference price, so
\* the suggested budget never exceeds it.
C31_ReferenceParsingStripsSymbols ==
    (reference_reply.ok
     /\ reference_reply.text.form \in {"plain", "dollar", "comma", "dollar_comma"})
    => /\ max_price = NumPrice(reference_reply.text.v)
       /\ BudgetStageSucceeded =>
            pstate["suggested_budget"] <= reference_reply.text.v

\* C32: an unreadable financials source fails the budget stage with the load
\* as its only event and neither completion requested; with no path no load is
\* attempted and the stage goes on to its requests.
C32_LoadFailsBeforeRequests ==
    /\ (failure.node = "SuggestBudgetAgent" /\ failure.cause = "financials")
        => /\ pstate["financials_path"] # None
           /\ plog = <<"SuggestBudgetAgent", "load">>
           /\ reference_reply = NoCompletion
           /\ recommendation_reply = NoCompletion
    /\ pstate["financials_path"] = None
        => /\ "load" \notin Events(plog)
           /\ failure.cause # "financials"
           /\ ("SuggestBudgetAgent" \in Events(plog)
               /\ ~CredentialMissing(env_openai_api_key))
              => /\ Len(plog) >= 2
                 /\ plog[2] = "request:reference"
    /\ ("load" \in Events(plog) /\ "request:reference" \in Events(plog))
        => \E i, j \in DOMAIN plog :
              i < j /\ plog[i] = "load" /\ plog[j] = "request:reference"
C32_Witness ==
    /\ failure.cause = "financials"
    /\ ppc = "raised"
    /\ plog = <<"SuggestBudgetAgent", "load">>

\* C33: every search cycle yields a Found, AboveCap, Blocked, PlainMessage or
\* Error result: once a cycle has run, the value get_openai_response returned
\* is never the absent value.
C33_ResultIsVariant ==
    attempts > 0 => ai_response.shape \in {"found", "message", "string"}

\* C34: whenever a completion request is about to be issued, every assistant
\* entry of the transcript that carries n tool calls is followed by the tool
\* results of calls 1..n, and every tool result follows the assistant entry
\* that issued its call.
WellFormed(hist) ==
    \A i \in DOMAIN hist :
        /\ (hist[i].role = "assistant" /\ hist[i].calls > 0)
            => /\ i + hist[i].calls <= Len(hist)
               /\ \A k \in 1..hist[i].calls : hist[i + k] = ToolEntry(k)
        /\ hist[i].role = "tool"
            => /\ i - hist[i].id >= 1
               /\ hist[i - hist[i].id].role = "assistant"
               /\ hist[i - hist[i].id].calls >= hist[i].id
C34_TranscriptWellFormed ==
    pc = "cycle" => WellFormed(conversation_history)

C36_SearchStageSingleShot ==
    /\ Count(plog, "request:search") <= 1
    /\ Count(plog, "WebSearchAgent") <= 1
    /\ "sleep" \notin Events(plog)
    /\ ("WebSearchAgent" \in Events(plog) /\ ~CredentialMissing(env_openai_api_key))
        => Count(plog, "request:search") = 1
    /\ ("WebSearchAgent" \in Events(plog) /\ failure.node # "WebSearchAgent")
        => ppc \in {"NotifyAgent", "END", "raised"}
C36_Witness ==
    /\ ppc = "END"
    /\ Count(plog, "request:search") = 1
    /\ pstate["search_result"].shape = "string"
    /\ pstate["timeframe"] # ""

\* C37: in the hard-cap script a search ends after exactly duration_days
\* cycles (none when duration_days is not positive), whatever the replies: it
\* never runs more cycles than that, it can always take its next step until
\* it is done, and a match in an earlier cycle does not end the loop.
C37_HardCapRunsAllCycles ==
    /\ hc_attempts <= (IF hc_duration_days > 0 THEN hc_duration_days ELSE 0)
    /\ hc_attempts = hc_days_passed
    /\ hc_pc = "done"
        => hc_attempts = (IF hc_duration_days > 0 THEN hc_duration_days ELSE 0)
    /\ hc_pc \in {"while", "cycle", "sleep"} => ENABLED HardCapNext
    /\ (hc_pc = "while" /\ hc_match_cycle > 0 /\ hc_days_passed < hc_duration_days)
        => HardCap_LoopContinues(hc_days_passed, hc_duration_days)
    /\ (hc_pc = "sleep" /\ hc_match_cycle > 0) => hc_days_passed < hc_duration_days
C37_Witness ==
    /\ hc_pc = "done"
    /\ hc_match_cycle = 1
    /\ hc_duration_days >= 2
    /\ hc_attempts = hc_duration_days

\* C38: a press of Confirm & Run Agents in a confirmable state invokes the
\* pipeline through entry_point and, when the pipeline succeeds, leaves its
\* final state in agent_result and dispatched set.
C38_ConfirmDispatches ==
    dash_out.confirmed
    => /\ dash_out.invoked
       /\ dash_out.pipeline = "final_state"
            => /\ session_state.agent_result = "final_state"
               /\ session_state.dispatched

====
